---- MODULE Spec2Model ----
(***************************************************************************)
(* Connection registry, stream attachment, heartbeat supervisor and        *)
(* notification dispatch of the grpcon notification server.                *)
(*                                                                         *)
(* Goroutines are processes.  A ConnectionManager method runs entirely     *)
(* under the manager's RWMutex, so in the specifications Spec* below each  *)
(* method call is one step; SpecLocks takes the same methods lock by lock.  *)
(* The fields of a Connection are read and written by the handlers without *)
(* any lock, so every such read and write is a step of its own.            *)
(***************************************************************************)
EXTENDS Naturals, Sequences, FiniteSets, TLC

\* ------------------------------------------------------------- bounds
\* Connection objects (and so ClientGroup objects) the heap can hold.
MaxConns == 2
\* dispatch calls (SendNotificationToClient, BroadcastToAll) ever started
MaxCalls == 2

\* ------------------------------------------------------------- values
Nil == 0
NoStream == "nil"
NoChan == "nil"

ClientIDs == {"a", "a_b"}
DeviceIDs == {"b_c", "c"}
ServiceNames == {"svc1", "svc2"}

ConnIds == 1..MaxConns
GroupIds == 1..MaxConns

\* goroutines: control RPCs, stream contexts, heartbeat supervisors
CtlProcs == {"k1", "k2"}
Streams == {"s1", "s2"}
UnregCallers == CtlProcs \cup Streams
DispProcs == {"n1", "n2"}

VARIABLES
    conns,      \* heap of models.Connection objects, by object id
    nConns,     \* number of Connection objects allocated so far
    groups,     \* heap of models.ClientGroup objects, by object id
    clients,    \* ConnectionManager.clients: client id -> group object
    rg,         \* RegisterDevice frames of the control goroutines
    un,         \* UnregisterDevice frames (control goroutines, supervisors)
    st,         \* StreamNotifications frames, one per stream
    sup,        \* sendHeartbeats frames, one per stream
    chanBuf,    \* buffer of the stop channel each stream context made
    dp,         \* SendNotificationToClient / BroadcastToAll frames
    nCalls,     \* dispatch calls started so far
    removed,    \* history: the objects RemoveConnection took out of the registry
    lastRet,    \* the call that returned in the step just taken, and its results
    lk          \* SpecLocks: the two tiers of RWMutex and the frames of their callers

regVars == <<groups, clients>>
vars == <<conns, nConns, groups, clients, rg, un, st, sup, chanBuf, dp, nCalls,
          removed, lastRet, lk>>

\* ------------------------------------------------------- models.go
\* CreateUniqueID: fmt.Sprintf("%s_%s", clientID, deviceID)
CreateUniqueID(clientID, deviceID) == clientID \o "_" \o deviceID

\* the zero Connection; heap cells not yet allocated hold it.  Delivered and
\* Detached are history: the notification Send calls to this Connection that
\* returned nil, and whether a DetachStream has completed on it since the
\* last write of an AttachStream
BlankConn ==
    [UniqueID |-> "", ClientID |-> "", DeviceID |-> "", ServiceName |-> "",
     Stream |-> NoStream, IsActive |-> FALSE, NotificationCount |-> 0,
     LastNotificationAt |-> "zero", LastHeartbeatAt |-> "zero",
     HeartbeatFailCount |-> 0, HeartbeatStopChan |-> NoChan, Delivered |-> 0,
     Detached |-> FALSE]

\* a new Connection that starts with a notification counted
NewConnectionCounted(clientID, deviceID, serviceName) ==
    [BlankConn EXCEPT !.UniqueID = CreateUniqueID(clientID, deviceID),
                      !.ClientID = clientID,
                      !.DeviceID = deviceID,
                      !.ServiceName = serviceName,
                      !.NotificationCount = 1,
                      !.IsActive = FALSE]

\* &models.Connection{...} of RegisterDevice
NewConnection(clientID, deviceID, serviceName) ==
    [BlankConn EXCEPT !.UniqueID = CreateUniqueID(clientID, deviceID),
                      !.ClientID = clientID,
                      !.DeviceID = deviceID,
                      !.ServiceName = serviceName,
                      !.NotificationCount = 0,
                      !.IsActive = FALSE]

\* NewClientGroup: an empty Devices map
EmptyDevices == [d \in DeviceIDs |-> Nil]
NewClientGroup(clientID) == [ClientID |-> clientID, Devices |-> EmptyDevices]

\* cm.clients[clientID], with "exists" as # Nil
ClientGroupOf(clientID) ==
    IF clientID \in DOMAIN clients THEN clients[clientID] ELSE Nil

\* ClientGroup.GetDevice
GetDevice(g, deviceID) ==
    IF deviceID \in DOMAIN groups[g].Devices THEN groups[g].Devices[deviceID] ELSE Nil

\* a snapshot that misses the devices after the first
GetFirstDevice(g) ==
    LET ds == {d \in DeviceIDs : groups[g].Devices[d] # Nil}
    IN IF ds = {} THEN {} ELSE {groups[g].Devices[CHOOSE d \in ds : TRUE]}

\* ClientGroup.GetAllDevices: the snapshot, as a set of objects
GetAllDevices(g) == {groups[g].Devices[d] : d \in DeviceIDs} \ {Nil}

\* ClientGroup.GetDeviceCount
GetDeviceCount(g) == Cardinality({d \in DeviceIDs : groups[g].Devices[d] # Nil})

\* ConnectionManager.GetConnection
GetConnection(clientID, deviceID) ==
    IF ClientGroupOf(clientID) = Nil THEN Nil
    ELSE GetDevice(ClientGroupOf(clientID), deviceID)

\* ConnectionManager.GetClientGroup
GetClientGroup(clientID) == ClientGroupOf(clientID)

\* ConnectionManager.GetAllClientIDs
GetAllClientIDs == {c \in ClientIDs : clients[c] # Nil}

\* an AddConnection that files every device under the key "c"
AddConnectionOneKey(id, clientID, deviceID) ==
    LET exists == clients[clientID] # Nil
        g == IF exists THEN clients[clientID] ELSE id
        old == IF exists THEN groups[g] ELSE NewClientGroup(clientID)
    IN /\ clients' = [clients EXCEPT ![clientID] = g]
       /\ groups' = [groups EXCEPT ![g] = [old EXCEPT !.Devices["c"] = id]]

\* ConnectionManager.AddConnection(conn), conn being the heap object id; a
\* ClientGroup object made here gets the object id of this first Connection
AddConnection(id, clientID, deviceID) ==
    LET exists == clients[clientID] # Nil
        g == IF exists THEN clients[clientID] ELSE id
        old == IF exists THEN groups[g] ELSE NewClientGroup(clientID)
    IN /\ clients' = [clients EXCEPT ![clientID] = g]
       /\ groups' = [groups EXCEPT ![g] = [old EXCEPT !.Devices[deviceID] = id]]

\* the "if clientGroup.GetDeviceCount() == 0" of RemoveConnection
PruneNever(devices) == FALSE

GroupIsEmpty(devices) == \A d \in DeviceIDs : devices[d] = Nil

\* ConnectionManager.RemoveConnection: the registry after the call
RemoveConnection(clientID, deviceID) ==
    LET g == ClientGroupOf(clientID)
    IN IF g = Nil
       THEN UNCHANGED <<clients, groups>>
       ELSE LET devs == [groups[g].Devices EXCEPT ![deviceID] = Nil]
            IN /\ groups' = [groups EXCEPT ![g].Devices = devs]
               /\ clients' = IF GroupIsEmpty(devs)
                             THEN [clients EXCEPT ![clientID] = Nil]
                             ELSE clients

\* a removal that is always reported
RemoveAlwaysReported(clientID, deviceID) == TRUE

\* ConnectionManager.RemoveConnection: its boolean result
RemoveConnectionResult(clientID, deviceID) ==
    GetConnection(clientID, deviceID) # Nil

\* ------------------------------------------------ connection_handler.go
IdleRg == [pc |-> "idle", cid |-> "", did |-> "", svc |-> ""]
IdleUn == [pc |-> "idle", cid |-> "", did |-> "", conn |-> Nil]
\* att is history: the Connection the AttachStream of this stream wrote
IdleSt == [pc |-> "idle", conn |-> Nil, aconn |-> Nil, att |-> Nil]
DoneSt == [pc |-> "done", conn |-> Nil, aconn |-> Nil, att |-> Nil]

\* exit, stoppedBy, fails and late are history: why the task returned, whose
\* stop signal it received, how many of its own sends failed in a row, and
\* whether its Connection has left Streaming ("left") and the task has since
\* passed the activity check of a tick ("ticked")
IdleSup == [pc |-> "off", conn |-> Nil, done |-> NoChan, tmp |-> 0,
            exit |-> "none", stoppedBy |-> "none", fails |-> 0, late |-> "no"]

\* the Streaming state of the attachment state machine: a stream is attached
InStreaming(cn) == cn.IsActive /\ cn.Stream # NoStream

\* history: the running supervisors of Connection c note that the write which
\* makes it cn takes it out of Streaming
MarkLeft(c, cn) ==
    [s \in Streams |->
        IF /\ sup[s].conn = c
           /\ sup[s].pc \notin {"off", "done"}
           /\ InStreaming(conns[c])
           /\ ~InStreaming(cn)
        THEN [sup[s] EXCEPT !.late = "left"]
        ELSE sup[s]]

\* a returned call: who ran it, which function, its ids, its error ("ok" for
\* nil) and, where it has them, the Connection and the counts it reports
NoRet == [by |-> "none", op |-> "none", cid |-> "", did |-> "", ret |-> "none",
          conn |-> Nil, successCount |-> 0, failCount |-> 0, totalDevices |-> 0,
          okSends |-> 0, snapshot |-> {}, active |-> {}, inactive |-> {},
          attempts |-> [i \in ConnIds |-> 0],
          stats |-> [total_clients |-> 0, total_devices |-> 0], client_ids |-> {}]
Ret(by, op, cid, did, ret, conn) ==
    [NoRet EXCEPT !.by = by, !.op = op, !.cid = cid, !.did = did, !.ret = ret,
                  !.conn = conn]

CtlIdle(p) == rg[p].pc = "idle" /\ un[p].pc = "idle"

\* Connection objects a RegisterDevice in flight is still going to allocate
Allocating == Cardinality({p \in CtlProcs : rg[p].pc = "add"})

\* an "already connected" return that takes over the new service name
RefreshService(cn, serviceName) == [cn EXCEPT !.ServiceName = serviceName]

\* "return existingConn, nil" (line 38): the registered object as it is
ExistingConn(cn, serviceName) == cn

\* a validation that looks at the clientID only
ValidateClientOnly(clientID, deviceID) ==
    IF clientID = "" THEN "client_id is required" ELSE "ok"

\* the two checks that open RegisterDevice (lines 26-31)
ValidateIds(clientID, deviceID) ==
    IF clientID = "" THEN "client_id is required"
    ELSE IF deviceID = "" THEN "device_id is required"
    ELSE "ok"

\* RegisterDevice, up to and including the GetConnection check:
\* validation errors and the "already connected" return end the call here.
RegisterDevice(p, clientID, deviceID, serviceName) ==
    /\ CtlIdle(p)
    /\ IF ValidateIds(clientID, deviceID) # "ok"
       THEN /\ lastRet' = Ret(p, "RegisterDevice", clientID, deviceID,
                              ValidateIds(clientID, deviceID), Nil)
            /\ UNCHANGED <<rg, conns>>
       ELSE IF GetConnection(clientID, deviceID) # Nil
       THEN LET c == GetConnection(clientID, deviceID)
            IN /\ lastRet' = Ret(p, "RegisterDevice", clientID, deviceID, "ok", c)
               /\ conns' = [conns EXCEPT ![c] = ExistingConn(conns[c], serviceName)]
               /\ UNCHANGED rg
       ELSE /\ nConns + Allocating < MaxConns
            /\ rg' = [rg EXCEPT ![p] = [pc |-> "add", cid |-> clientID, did |-> deviceID,
                                        svc |-> serviceName]]
            /\ lastRet' = NoRet
            /\ UNCHANGED conns
    /\ UNCHANGED <<nConns, regVars, un, st, sup, chanBuf, dp, nCalls, removed, lk>>

\* RegisterDevice, from "Create new connection" to the return
RegisterAdd(p) ==
    /\ rg[p].pc = "add"
    /\ nConns' = nConns + 1
    /\ conns' = [conns EXCEPT ![nConns + 1] =
                    NewConnection(rg[p].cid, rg[p].did, rg[p].svc)]
    /\ AddConnection(nConns + 1, rg[p].cid, rg[p].did)
    /\ rg' = [rg EXCEPT ![p] = IdleRg]
    /\ lastRet' = Ret(p, "RegisterDevice", rg[p].cid, rg[p].did, "ok", nConns + 1)
    /\ UNCHANGED <<un, st, sup, chanBuf, dp, nCalls, removed, lk>>


\* UnregisterDevice returns r: a control goroutine is idle again, a heartbeat
\* supervisor returns from sendHeartbeats right after the call (line 200-201)
UnregReturn(p, clientID, deviceID, r) ==
    /\ un' = [un EXCEPT ![p] = IdleUn]
    /\ lastRet' = Ret(p, "UnregisterDevice", clientID, deviceID, r, Nil)
    /\ sup' = IF p \in Streams
              THEN [sup EXCEPT ![p] = [IdleSup EXCEPT !.pc = "done", !.exit = "evicted"]]
              ELSE sup

\* UnregisterDevice up to and including GetConnection (lines 61-71)
UnregisterEnter(p, clientID, deviceID) ==
    IF clientID = "" \/ deviceID = ""
    THEN UnregReturn(p, clientID, deviceID, "client_id and device_id are required")
    ELSE IF GetConnection(clientID, deviceID) = Nil
    THEN UnregReturn(p, clientID, deviceID, "device not found")
    ELSE /\ un' = [un EXCEPT ![p] = [pc |-> "chk_stream", cid |-> clientID,
                                     did |-> deviceID,
                                     conn |-> GetConnection(clientID, deviceID)]]
         /\ lastRet' = NoRet
         /\ sup' = IF p \in Streams THEN [sup EXCEPT ![p].pc = "evict"] ELSE sup

\* a control goroutine calls UnregisterDevice
UnregisterDevice(p, clientID, deviceID) ==
    /\ CtlIdle(p)
    /\ UnregisterEnter(p, clientID, deviceID)
    /\ UNCHANGED <<conns, nConns, regVars, rg, st, chanBuf, dp, nCalls, removed, lk>>

\* "conn.Stream != nil" of line 74
UnregChkStream(p) ==
    /\ un[p].pc = "chk_stream"
    /\ un' = [un EXCEPT ![p].pc = IF conns[un[p].conn].Stream # NoStream
                                  THEN "chk_active" ELSE "remove"]
    /\ UNCHANGED <<conns, nConns, regVars, rg, st, sup, chanBuf, dp, nCalls, removed, lk>>
    /\ lastRet' = NoRet

\* "&& conn.IsActive" of line 74
UnregChkActive(p) ==
    /\ un[p].pc = "chk_active"
    /\ un' = [un EXCEPT ![p].pc = IF conns[un[p].conn].IsActive
                                  THEN "clr_active" ELSE "remove"]
    /\ UNCHANGED <<conns, nConns, regVars, rg, st, sup, chanBuf, dp, nCalls, removed, lk>>
    /\ lastRet' = NoRet

\* conn.IsActive = false (line 78)
UnregClrActive(p) ==
    /\ un[p].pc = "clr_active"
    /\ conns' = [conns EXCEPT ![un[p].conn].IsActive = FALSE]
    /\ un' = [un EXCEPT ![p].pc = "clr_stream"]
    /\ sup' = MarkLeft(un[p].conn, [conns[un[p].conn] EXCEPT !.IsActive = FALSE])
    /\ UNCHANGED <<nConns, regVars, rg, st, chanBuf, dp, nCalls, removed, lk>>
    /\ lastRet' = NoRet

\* conn.Stream = nil (line 79)
UnregClrStream(p) ==
    /\ un[p].pc = "clr_stream"
    /\ conns' = [conns EXCEPT ![un[p].conn].Stream = NoStream]
    /\ un' = [un EXCEPT ![p].pc = "remove"]
    /\ sup' = MarkLeft(un[p].conn, [conns[un[p].conn] EXCEPT !.Stream = NoStream])
    /\ UNCHANGED <<nConns, regVars, rg, st, chanBuf, dp, nCalls, removed, lk>>
    /\ lastRet' = NoRet

\* RemoveConnection and the return (lines 81-88)
UnregRemove(p) ==
    /\ un[p].pc = "remove"
    /\ RemoveConnection(un[p].cid, un[p].did)
    /\ LET gone == GetConnection(un[p].cid, un[p].did)
       IN /\ removed' = IF gone = Nil THEN removed
                        ELSE [removed EXCEPT ![gone] = TRUE]
          /\ UnregReturn(p, un[p].cid, un[p].did,
                         IF RemoveConnectionResult(un[p].cid, un[p].did)
                         THEN "ok" ELSE "device not found")
    /\ UNCHANGED <<conns, nConns, rg, st, chanBuf, dp, nCalls, lk>>

\* ------------------------------------------------ notification_handler.go
UniqueIDs == {CreateUniqueID(c, d) : c \in ClientIDs, d \in DeviceIDs}

\* ConnectionManager.GetConnectionByUniqueID: the registered Connections whose
\* derived id is uniqueID (the search returns one of them)
GetConnectionByUniqueID(uniqueID) ==
    {GetConnection(c, d) : c \in ClientIDs, d \in DeviceIDs} \cap
    {i \in ConnIds : conns[i].UniqueID = uniqueID}

\* StreamNotifications up to GetDeviceByUniqueID (lines 96-107)
StreamNotifications(s, connectionID) ==
    /\ st[s].pc = "idle"
    /\ IF connectionID = ""
       THEN /\ st' = [st EXCEPT ![s] = DoneSt]
            /\ lastRet' = Ret(s, "StreamNotifications", "", "",
                              "connection_id is required", Nil)
       ELSE IF GetConnectionByUniqueID(connectionID) = {}
       THEN /\ st' = [st EXCEPT ![s] = DoneSt]
            /\ lastRet' = Ret(s, "StreamNotifications", "", "",
                              "connection not found", Nil)
       ELSE /\ \E c \in GetConnectionByUniqueID(connectionID) :
                  st' = [st EXCEPT ![s].pc = "att_get", ![s].conn = c]
            /\ lastRet' = NoRet
    /\ UNCHANGED <<conns, nConns, regVars, rg, un, sup, chanBuf, dp, nCalls, removed, lk>>

\* an AttachStream that goes on without a Connection
AttachUnchecked(c) == FALSE

\* "if !exists" of AttachStream (connection_handler.go line 94)
AttachMissing(c) == c = Nil

\* AttachStream: GetConnection (connection_handler.go lines 93-96)
AttachGet(s) ==
    /\ st[s].pc = "att_get"
    /\ LET c == GetConnection(conns[st[s].conn].ClientID, conns[st[s].conn].DeviceID)
       IN IF AttachMissing(c)
          THEN /\ st' = [st EXCEPT ![s] = DoneSt]
               /\ lastRet' = Ret(s, "StreamNotifications", conns[st[s].conn].ClientID,
                                 conns[st[s].conn].DeviceID, "connection not found", Nil)
          ELSE /\ st' = [st EXCEPT ![s].pc = "att_stream", ![s].aconn = c]
               /\ lastRet' = NoRet
    /\ UNCHANGED <<conns, nConns, regVars, rg, un, sup, chanBuf, dp, nCalls, removed, lk>>

\* AttachStream: conn.Stream = stream (connection_handler.go line 98)
AttachSetStream(s) ==
    /\ st[s].pc = "att_stream"
    /\ conns' = [conns EXCEPT ![st[s].aconn].Stream = s,
                              ![st[s].aconn].Detached = FALSE]
    /\ st' = [st EXCEPT ![s].pc = "att_active", ![s].att = st[s].aconn]
    /\ UNCHANGED <<nConns, regVars, rg, un, sup, chanBuf, dp, nCalls, removed, lk>>
    /\ lastRet' = NoRet

\* AttachStream: conn.IsActive = true (connection_handler.go line 99)
AttachSetActive(s) ==
    /\ st[s].pc = "att_active"
    /\ conns' = [conns EXCEPT ![st[s].aconn].IsActive = TRUE,
                              ![st[s].aconn].Detached = FALSE]
    /\ st' = [st EXCEPT ![s].pc = "hb_init", ![s].aconn = Nil]
    /\ UNCHANGED <<nConns, regVars, rg, un, sup, chanBuf, dp, nCalls, removed, lk>>
    /\ lastRet' = NoRet

\* an initialisation that leaves the failure counter alone
StampHeartbeat(cn) == [cn EXCEPT !.LastHeartbeatAt = "attach"]

\* conn.LastHeartbeatAt = time.Now(); conn.HeartbeatFailCount = 0 (lines 115-116)
ResetHeartbeat(cn) == [cn EXCEPT !.LastHeartbeatAt = "attach", !.HeartbeatFailCount = 0]

StreamInitHeartbeat(s) ==
    /\ st[s].pc = "hb_init"
    /\ conns' = [conns EXCEPT ![st[s].conn] = ResetHeartbeat(conns[st[s].conn])]
    /\ st' = [st EXCEPT ![s].pc = "mk_chan"]
    /\ UNCHANGED <<nConns, regVars, rg, un, sup, chanBuf, dp, nCalls, removed, lk>>
    /\ lastRet' = NoRet

\* conn.HeartbeatStopChan = make(chan bool, 1) (line 119); the channel made by
\* stream s is named s
StreamMakeChan(s) ==
    /\ st[s].pc = "mk_chan"
    /\ conns' = [conns EXCEPT ![st[s].conn].HeartbeatStopChan = s]
    /\ st' = [st EXCEPT ![s].pc = "spawn"]
    /\ UNCHANGED <<nConns, regVars, rg, un, sup, chanBuf, dp, nCalls, removed, lk>>
    /\ lastRet' = NoRet

\* go s.sendHeartbeats(conn, stream, conn.HeartbeatStopChan) (line 124)
StreamSpawn(s) ==
    /\ st[s].pc = "spawn"
    /\ sup' = [sup EXCEPT ![s] = [IdleSup EXCEPT !.pc = "wait", !.conn = st[s].conn,
                                  !.done = conns[st[s].conn].HeartbeatStopChan]]
    /\ st' = [st EXCEPT ![s].pc = "serve"]
    /\ UNCHANGED <<conns, nConns, regVars, rg, un, chanBuf, dp, nCalls, removed, lk>>
    /\ lastRet' = NoRet

\* a plain send "ch <- true": it waits until the buffer has room, and for
\* ever on a nil channel
SendWaits(ch) == ch # NoChan /\ chanBuf[ch] = "empty"

\* "select { case ch <- true: ... default: }" behind "if ch != nil" (lines
\* 130-137): it goes on whatever the channel holds
SendOrDefault(ch) == TRUE

\* <-stream.Context().Done() (line 127): the transport ends, and the
\* non-blocking send on conn.HeartbeatStopChan (lines 130-137)
StreamSignalStop(s) ==
    /\ st[s].pc = "serve"
    /\ SendOrDefault(conns[st[s].conn].HeartbeatStopChan)
    /\ LET ch == conns[st[s].conn].HeartbeatStopChan
       IN chanBuf' = IF ch # NoChan /\ chanBuf[ch] = "empty"
                     THEN [chanBuf EXCEPT ![ch] = s]
                     ELSE chanBuf
    /\ st' = [st EXCEPT ![s].pc = "det_get"]
    /\ UNCHANGED <<conns, nConns, regVars, rg, un, sup, dp, nCalls, removed, lk>>
    /\ lastRet' = NoRet

\* DetachStream: GetConnection (connection_handler.go lines 107-108)
DetachGet(s) ==
    /\ st[s].pc = "det_get"
    /\ LET c == GetConnection(conns[st[s].conn].ClientID, conns[st[s].conn].DeviceID)
       IN IF c = Nil
          THEN /\ st' = [st EXCEPT ![s] = DoneSt]
               /\ lastRet' = Ret(s, "StreamNotifications", conns[st[s].conn].ClientID,
                                 conns[st[s].conn].DeviceID, "ok", st[s].conn)
          ELSE /\ st' = [st EXCEPT ![s].pc = "det_stream", ![s].aconn = c]
               /\ lastRet' = NoRet
    /\ UNCHANGED <<conns, nConns, regVars, rg, un, sup, chanBuf, dp, nCalls, removed, lk>>

\* a detach that leaves the Stream in place
KeepStream(cn) == cn

\* conn.Stream = nil (connection_handler.go line 109)
ClearStream(cn) == [cn EXCEPT !.Stream = NoStream]

\* DetachStream: conn.Stream = nil (connection_handler.go line 109)
DetachClrStream(s) ==
    /\ st[s].pc = "det_stream"
    /\ conns' = [conns EXCEPT ![st[s].aconn] = ClearStream(conns[st[s].aconn])]
    /\ st' = [st EXCEPT ![s].pc = "det_active"]
    /\ sup' = MarkLeft(st[s].aconn, [conns[st[s].aconn] EXCEPT !.Stream = NoStream])
    /\ UNCHANGED <<nConns, regVars, rg, un, chanBuf, dp, nCalls, removed, lk>>
    /\ lastRet' = NoRet

\* a detach that flips IsActive
ToggleActive(cn) == [cn EXCEPT !.IsActive = ~cn.IsActive, !.Detached = TRUE]

\* conn.IsActive = false (connection_handler.go line 110)
ClearActive(cn) == [cn EXCEPT !.IsActive = FALSE, !.Detached = TRUE]

\* DetachStream: conn.IsActive = false (connection_handler.go line 110), and
\* the return of StreamNotifications
DetachClrActive(s) ==
    /\ st[s].pc = "det_active"
    /\ conns' = [conns EXCEPT ![st[s].aconn] = ClearActive(conns[st[s].aconn])]
    /\ st' = [st EXCEPT ![s] = DoneSt]
    /\ lastRet' = Ret(s, "StreamNotifications", conns[st[s].conn].ClientID,
                      conns[st[s].conn].DeviceID, "ok", st[s].conn)
    /\ sup' = MarkLeft(st[s].aconn, [conns[st[s].aconn] EXCEPT !.IsActive = FALSE])
    /\ UNCHANGED <<nConns, regVars, rg, un, chanBuf, dp, nCalls, removed, lk>>

\* stream s is between the lookup of its Connection and the start of its
\* supervisor (notification_handler.go lines 104-124)
Attaching(s) ==
    st[s].pc \in {"att_get", "att_stream", "att_active", "hb_init", "mk_chan", "spawn"}

\* no stream other than s is attaching
AttachAlone(s) == \A t \in Streams \ {s} : ~Attaching(t)

\* the heartbeat threshold of line 198
HeartbeatFailLimit == 2

Min(a, b) == IF a < b THEN a ELSE b

\* sendHeartbeats returns
SupExit(f, why) == [IdleSup EXCEPT !.pc = "done", !.exit = why, !.stoppedBy = f.stoppedBy]

\* a tick that takes every Connection for active
TickNeverInactive(cn) == FALSE

\* "!conn.IsActive" (line 177)
TickInactive(cn) == ~cn.IsActive

\* case <-ticker.C, and "!conn.IsActive" (lines 175-177)
SupTick(s) ==
    /\ sup[s].pc = "wait"
    /\ sup' = [sup EXCEPT ![s] = IF TickInactive(conns[sup[s].conn])
                                 THEN SupExit(sup[s], "inactive")
                                 ELSE [sup[s] EXCEPT !.pc = "chk_stream"]]
    /\ UNCHANGED <<conns, nConns, regVars, rg, un, st, chanBuf, dp, nCalls, removed, lk>>
    /\ lastRet' = NoRet

\* case <-done (lines 210-212)
SupStopped(s) ==
    /\ sup[s].pc = "wait"
    /\ chanBuf[sup[s].done] # "empty"
    /\ chanBuf' = [chanBuf EXCEPT ![sup[s].done] = "empty"]
    /\ sup' = [sup EXCEPT ![s] = SupExit([sup[s] EXCEPT !.stoppedBy = chanBuf[sup[s].done]],
                                         "stopped")]
    /\ UNCHANGED <<conns, nConns, regVars, rg, un, st, dp, nCalls, removed, lk>>
    /\ lastRet' = NoRet

\* "|| conn.Stream == nil" (line 177); a task that passes the check goes on
\* to send
SupChkStream(s) ==
    /\ sup[s].pc = "chk_stream"
    /\ sup' = [sup EXCEPT ![s] = IF conns[sup[s].conn].Stream # NoStream
                                 THEN [sup[s] EXCEPT !.pc = "send",
                                                     !.late = IF sup[s].late = "left"
                                                              THEN "ticked" ELSE @]
                                 ELSE SupExit(sup[s], "inactive")]
    /\ UNCHANGED <<conns, nConns, regVars, rg, un, st, chanBuf, dp, nCalls, removed, lk>>
    /\ lastRet' = NoRet

\* stream.Send(heartbeat) on the supervisor's own stream (line 192) and what
\* follows it at once: on success conn.HeartbeatFailCount = 0 and
\* conn.LastHeartbeatAt = time.Now() (lines 205-206), on failure the read of
\* conn.HeartbeatFailCount++ (line 193)
SupSend(s, ok) ==
    /\ sup[s].pc = "send"
    /\ IF ok
       THEN /\ conns' = [conns EXCEPT ![sup[s].conn].HeartbeatFailCount = 0,
                                      ![sup[s].conn].LastHeartbeatAt = "hb"]
            /\ sup' = [sup EXCEPT ![s].pc = "wait", ![s].fails = 0]
       ELSE /\ sup' = [sup EXCEPT ![s].pc = "fail_wr",
                                  ![s].tmp = conns[sup[s].conn].HeartbeatFailCount,
                                  ![s].fails = Min(sup[s].fails + 1, HeartbeatFailLimit)]
            /\ UNCHANGED conns
    /\ UNCHANGED <<nConns, regVars, rg, un, st, chanBuf, dp, nCalls, removed, lk>>
    /\ lastRet' = NoRet

\* conn.HeartbeatFailCount++ (line 193): the write
SupFailWrite(s) ==
    /\ sup[s].pc = "fail_wr"
    /\ conns' = [conns EXCEPT ![sup[s].conn].HeartbeatFailCount = sup[s].tmp + 1]
    /\ sup' = [sup EXCEPT ![s].pc = "fail_chk", ![s].tmp = 0]
    /\ UNCHANGED <<nConns, regVars, rg, un, st, chanBuf, dp, nCalls, removed, lk>>
    /\ lastRet' = NoRet

\* "if conn.HeartbeatFailCount >= 2" (line 198)
EvictionDue(failCount) == failCount >= HeartbeatFailLimit

\* lines 198-202: the threshold check and the call of UnregisterDevice
SupFailCheck(s) ==
    /\ sup[s].pc = "fail_chk"
    /\ IF EvictionDue(conns[sup[s].conn].HeartbeatFailCount)
       THEN UnregisterEnter(s, conns[sup[s].conn].ClientID, conns[sup[s].conn].DeviceID)
       ELSE /\ sup' = [sup EXCEPT ![s].pc = "wait"]
            /\ UNCHANGED un
            /\ lastRet' = NoRet
    /\ UNCHANGED <<conns, nConns, regVars, rg, st, chanBuf, dp, nCalls, removed, lk>>

\* ------------------------------------- connection_handler.go, dispatch
\* okSends is history: the Send calls of this dispatch call that returned nil;
\* so are snapshot (the devices GetAllDevices returned to this call), active
\* and inactive (those that passed and those that failed the check of the
\* loop) and attempts (the Send calls made for each device)
IdleDp == [pc |-> "idle", op |-> "none", cid |-> "", cids |-> {}, g |-> Nil,
           todo |-> {}, cur |-> Nil, tmp |-> 0, successCount |-> 0, failCount |-> 0,
           totalDevices |-> 0, okSends |-> 0, snapshot |-> {}, active |-> {},
           inactive |-> {}, attempts |-> [i \in ConnIds |-> 0],
           stats |-> [total_clients |-> 0, total_devices |-> 0]]

\* what a dispatch call reports when it returns
DispatchRet(p, f, r) ==
    [Ret(p, f.op, f.cid, "", r, Nil) EXCEPT !.successCount = f.successCount,
                                            !.failCount = f.failCount,
                                            !.totalDevices = f.totalDevices,
                                            !.okSends = f.okSends,
                                            !.snapshot = f.snapshot,
                                            !.active = f.active,
                                            !.inactive = f.inactive,
                                            !.attempts = f.attempts]

\* SendNotificationToClient: GetClientGroup (lines 152-155)
SendNotificationToClient(p, clientID) ==
    /\ dp[p].pc = "idle"
    /\ nCalls < MaxCalls
    /\ nCalls' = nCalls + 1
    /\ LET f == [IdleDp EXCEPT !.op = "SendNotificationToClient", !.cid = clientID]
       IN IF GetClientGroup(clientID) = Nil
          THEN /\ lastRet' = DispatchRet(p, f, "no devices found for client")
               /\ UNCHANGED dp
          ELSE /\ dp' = [dp EXCEPT ![p] = [f EXCEPT !.pc = "snap",
                                                    !.g = GetClientGroup(clientID)]]
               /\ lastRet' = NoRet
    /\ UNCHANGED <<conns, nConns, regVars, rg, un, st, sup, chanBuf, removed, lk>>

\* BroadcastToAll: GetAllClientIDs (line 194)
BroadcastToAll(p) ==
    /\ dp[p].pc = "idle"
    /\ nCalls < MaxCalls
    /\ nCalls' = nCalls + 1
    /\ dp' = [dp EXCEPT ![p] = [IdleDp EXCEPT !.op = "BroadcastToAll", !.pc = "bc_loop",
                                              !.cids = GetAllClientIDs]]
    /\ UNCHANGED <<conns, nConns, regVars, rg, un, st, sup, chanBuf, removed, lk>>
    /\ lastRet' = NoRet

\* BroadcastToAll: the next clientID and its GetClientGroup (lines 198-202),
\* or the end of the loop (lines 229-231)
BroadcastNext(p) ==
    /\ dp[p].pc = "bc_loop"
    /\ IF dp[p].cids = {}
       THEN /\ dp' = [dp EXCEPT ![p] = IdleDp]
            /\ lastRet' = DispatchRet(p, dp[p], "ok")
       ELSE /\ \E c \in dp[p].cids :
                  dp' = [dp EXCEPT ![p].cids = dp[p].cids \ {c},
                                   ![p].g = GetClientGroup(c),
                                   ![p].pc = IF GetClientGroup(c) = Nil
                                             THEN "bc_loop" ELSE "snap"]
            /\ lastRet' = NoRet
    /\ UNCHANGED <<conns, nConns, regVars, rg, un, st, sup, chanBuf, nCalls, removed, lk>>

\* a total that forgets the clients before this one
TotalOfLastClient(totalDevices, devices) == Cardinality(devices)

\* totalDevices += len(devices) (line 205)
TotalDevices(totalDevices, devices) == totalDevices + Cardinality(devices)

\* devices := clientGroup.GetAllDevices() (lines 157, 204-205)
DispatchSnapshot(p) ==
    /\ dp[p].pc = "snap"
    /\ dp' = [dp EXCEPT ![p].pc = "loop",
                        ![p].g = Nil,
                        ![p].todo = GetAllDevices(dp[p].g),
                        ![p].snapshot = dp[p].snapshot \cup GetAllDevices(dp[p].g),
                        ![p].totalDevices = TotalDevices(dp[p].totalDevices,
                                                         GetAllDevices(dp[p].g))]
    /\ UNCHANGED <<conns, nConns, regVars, rg, un, st, sup, chanBuf, nCalls, removed, lk>>
    /\ lastRet' = NoRet

\* a failure that ends the loop
FailedAborts(f) ==
    [f EXCEPT !.pc = "loop", !.cur = Nil, !.todo = {}, !.failCount = f.failCount + 1]

\* the else branch of lines 176-179 and the error branch of lines 168-169:
\* only SendNotificationToClient counts failures
Failed(f) ==
    IF f.op = "SendNotificationToClient"
    THEN [f EXCEPT !.pc = "loop", !.cur = Nil, !.failCount = f.failCount + 1]
    ELSE [f EXCEPT !.pc = "loop", !.cur = Nil]

\* the next device of the range loop and "device.Stream != nil" (lines 165, 208)
DispatchChkStream(p) ==
    /\ dp[p].pc = "loop"
    /\ \E c \in dp[p].todo :
          LET f == [dp[p] EXCEPT !.todo = dp[p].todo \ {c}, !.cur = c]
          IN dp' = [dp EXCEPT ![p] = IF conns[c].Stream # NoStream
                                     THEN [f EXCEPT !.pc = "chk_active"]
                                     ELSE Failed([f EXCEPT !.inactive = @ \cup {c}])]
    /\ UNCHANGED <<conns, nConns, regVars, rg, un, st, sup, chanBuf, nCalls, removed, lk>>
    /\ lastRet' = NoRet

\* "&& device.IsActive" (lines 165, 208)
DispatchChkActive(p) ==
    /\ dp[p].pc = "chk_active"
    /\ dp' = [dp EXCEPT ![p] = IF conns[dp[p].cur].IsActive
                               THEN [dp[p] EXCEPT !.pc = "send",
                                                  !.active = @ \cup {dp[p].cur}]
                               ELSE Failed([dp[p] EXCEPT !.inactive =
                                                             @ \cup {dp[p].cur}])]
    /\ UNCHANGED <<conns, nConns, regVars, rg, un, st, sup, chanBuf, nCalls, removed, lk>>
    /\ lastRet' = NoRet

\* device.Stream.Send(...) (lines 167, 218): the method call on a nil Stream
\* panics, any other Stream sends and returns nil or an error
DispatchSend(p, ok) ==
    /\ dp[p].pc = "send"
    /\ conns' = IF conns[dp[p].cur].Stream # NoStream /\ ok
                THEN [conns EXCEPT ![dp[p].cur].Delivered = @ + 1]
                ELSE conns
    /\ dp' = [dp EXCEPT ![p] =
                IF conns[dp[p].cur].Stream = NoStream
                THEN [dp[p] EXCEPT !.pc = "panic"]
                ELSE IF ok
                THEN [dp[p] EXCEPT !.pc = "upd_rd", !.okSends = dp[p].okSends + 1,
                                   !.attempts[dp[p].cur] = @ + 1]
                ELSE Failed([dp[p] EXCEPT !.attempts[dp[p].cur] = @ + 1])]
    /\ UNCHANGED <<nConns, regVars, rg, un, st, sup, chanBuf, nCalls, removed, lk>>
    /\ lastRet' = NoRet

\* a stamp that also marks the device inactive
StampAndDeactivate(cn) == [cn EXCEPT !.LastNotificationAt = "set", !.IsActive = FALSE]

\* device.LastNotificationAt = time.Now() (lines 172, 221)
StampNotification(cn) == [cn EXCEPT !.LastNotificationAt = "set"]

\* device.LastNotificationAt = time.Now() and the read of
\* device.NotificationCount++ (lines 172-173, 221-222)
DispatchUpdRead(p) ==
    /\ dp[p].pc = "upd_rd"
    /\ conns' = [conns EXCEPT ![dp[p].cur] = StampNotification(conns[dp[p].cur])]
    /\ dp' = [dp EXCEPT ![p].pc = "upd_wr",
                        ![p].tmp = conns[dp[p].cur].NotificationCount]
    /\ UNCHANGED <<nConns, regVars, rg, un, st, sup, chanBuf, nCalls, removed, lk>>
    /\ lastRet' = NoRet

\* the write of device.NotificationCount++ and successCount++ (lines 173-174, 222-223)
DispatchUpdWrite(p) ==
    /\ dp[p].pc = "upd_wr"
    /\ conns' = [conns EXCEPT ![dp[p].cur].NotificationCount = dp[p].tmp + 1]
    /\ dp' = [dp EXCEPT ![p].pc = "loop", ![p].tmp = 0, ![p].cur = Nil,
                        ![p].successCount = dp[p].successCount + 1]
    /\ UNCHANGED <<nConns, regVars, rg, un, st, sup, chanBuf, nCalls, removed, lk>>
    /\ lastRet' = NoRet

\* a result that wants more than one successful send
DeliveryNeedsTwo(successCount) ==
    IF successCount <= 1 THEN "failed to send notification to any device" ELSE "ok"

\* the result of SendNotificationToClient (lines 185-189)
DeliveryResult(successCount) ==
    IF successCount = 0 THEN "failed to send notification to any device" ELSE "ok"

\* the end of a range loop over devices
DispatchLoopEnd(p) ==
    /\ dp[p].pc = "loop"
    /\ dp[p].todo = {}
    /\ IF dp[p].op = "SendNotificationToClient"
       THEN /\ dp' = [dp EXCEPT ![p] = IdleDp]
            /\ lastRet' = DispatchRet(p, dp[p], DeliveryResult(dp[p].successCount))
       ELSE /\ dp' = [dp EXCEPT ![p].pc = "bc_loop"]
            /\ lastRet' = NoRet
    /\ UNCHANGED <<conns, nConns, regVars, rg, un, st, sup, chanBuf, nCalls, removed, lk>>

\* ----------------------------------------- connection_handler.go, stats
\* the sum of GetDeviceCount over the groups gs
RECURSIVE SumDeviceCounts(_)
SumDeviceCounts(gs) ==
    IF gs = {} THEN 0
    ELSE LET g == CHOOSE x \in gs : TRUE
         IN GetDeviceCount(g) + SumDeviceCounts(gs \ {g})

\* statistics that count every Connection ever created
GetStatsEverCreated ==
    [total_clients |-> Cardinality({c \in ClientIDs : clients[c] # Nil}),
     total_devices |-> nConns]

\* ConnectionManager.GetStats: len(cm.clients) and the sum of the groups'
\* GetDeviceCount, under cm.mu.RLock (models.go lines 201-215)
GetStats ==
    [total_clients |-> Cardinality({c \in ClientIDs : clients[c] # Nil}),
     total_devices |-> SumDeviceCounts({clients[c] : c \in ClientIDs} \ {Nil})]

\* GetConnectionStats: stats := h.connManager.GetStats() (line 145)
GetConnectionStats(p) ==
    /\ dp[p].pc = "idle"
    /\ nCalls < MaxCalls
    /\ nCalls' = nCalls + 1
    /\ dp' = [dp EXCEPT ![p] = [IdleDp EXCEPT !.op = "GetConnectionStats",
                                              !.pc = "stats_ids",
                                              !.stats = GetStats]]
    /\ lastRet' = NoRet
    /\ UNCHANGED <<conns, nConns, regVars, rg, un, st, sup, chanBuf, removed, lk>>

\* GetConnectionStats: stats["client_ids"] = h.connManager.GetAllClientIDs()
\* and the return (lines 146-147)
StatsClientIDs(p) ==
    /\ dp[p].pc = "stats_ids"
    /\ dp' = [dp EXCEPT ![p] = IdleDp]
    /\ lastRet' = [Ret(p, "GetConnectionStats", "", "", "ok", Nil)
                      EXCEPT !.stats = dp[p].stats, !.client_ids = GetAllClientIDs]
    /\ UNCHANGED <<conns, nConns, regVars, rg, un, st, sup, chanBuf, nCalls, removed, lk>>

\* ------------------------------------------- models.go, lock by lock
\* The goroutines of SpecLocks.  cmW and cmR are the writer and the readers
\* holding ConnectionManager.mu, cgW and cgR those of each ClientGroup.mu.
\* A goroutine blocked in Lock() is a pending writer, and a pending writer
\* keeps new readers out (sync.RWMutex).
LockThreads == {"t1", "t2", "t3"}
LockOps == {"AddConnection", "RemoveConnection", "GetConnection", "GetClientGroup",
            "GetStats", "sendHeartbeats"}

IdleLf == [pc |-> "idle", op |-> "none", cid |-> "", did |-> "", g |-> Nil,
           todo |-> {}, id |-> Nil]

IdleLk == [cmW |-> "none", cmR |-> {},
           cgW |-> [g \in GroupIds |-> "none"], cgR |-> [g \in GroupIds |-> {}],
           fr |-> [t \in LockThreads |-> IdleLf]]

CmPending == {t \in LockThreads : lk.fr[t].pc = "cm_lock"}
CgPending(g) == {t \in LockThreads : lk.fr[t].pc = "cg_lock" /\ lk.fr[t].g = g}

\* sync.RWMutex: Lock() returns when nobody holds the mutex, RLock() when no
\* writer holds it or waits for it
LockFree(w, readers) == w = "none" /\ readers = {}
RLockFree(w, pending) == w = "none" /\ pending = {}

\* a deferred RUnlock that never runs
ReleaseReadLost(readers, t) == readers

\* "defer cg.mu.RUnlock()" of the ClientGroup read methods
ReleaseRead(readers, t) == readers \ {t}

\* a deferred cm.mu.RUnlock() that leaves the caller a reader
KeepCmRead(readers, t) == readers

\* "defer cm.mu.RUnlock()" of the ConnectionManager read methods
ReleaseCmRead(readers, t) == readers \ {t}

HoldsCm(t) == lk.cmW = t \/ t \in lk.cmR
HoldsCg(t) == \E g \in GroupIds : lk.cgW[g] = t \/ t \in lk.cgR[g]

\* a goroutine calls a ConnectionManager method; RegisterDevice has built the
\* Connection it passes to AddConnection.  A supervisor's tick takes no lock
\* before its stream.Send (notification_handler.go lines 176-191)
LkCall(t, op, clientID, deviceID) ==
    /\ lk.fr[t].pc = "idle"
    /\ IF op = "AddConnection"
       THEN /\ nConns < MaxConns
            /\ nConns' = nConns + 1
            /\ conns' = [conns EXCEPT ![nConns + 1] =
                            NewConnection(clientID, deviceID, "svc1")]
       ELSE UNCHANGED <<conns, nConns>>
    /\ lk' = [lk EXCEPT !.fr[t] =
                [IdleLf EXCEPT !.pc = IF op \in {"AddConnection", "RemoveConnection"}
                                      THEN "cm_lock"
                                      ELSE IF op = "sendHeartbeats" THEN "send"
                                      ELSE "cm_rlock",
                               !.op = op, !.cid = clientID, !.did = deviceID,
                               !.id = IF op = "AddConnection" THEN nConns + 1 ELSE Nil]]
    /\ UNCHANGED <<regVars, rg, un, st, sup, chanBuf, dp, nCalls, removed, lastRet>>

\* cm.mu.Lock() returns; AddConnection gets or creates the group (lines
\* 103-111), RemoveConnection looks the group up (lines 119-125)
CmLock(t) ==
    LET f == lk.fr[t]
        exists == clients[f.cid] # Nil
        g == IF exists THEN clients[f.cid] ELSE f.id
    IN /\ f.pc = "cm_lock"
       /\ LockFree(lk.cmW, lk.cmR)
       /\ IF f.op = "AddConnection"
          THEN /\ clients' = [clients EXCEPT ![f.cid] = g]
               /\ groups' = IF exists THEN groups
                            ELSE [groups EXCEPT ![g] = NewClientGroup(f.cid)]
               /\ lk' = [lk EXCEPT !.cmW = t, !.fr[t].g = g, !.fr[t].pc = "cg_lock"]
          ELSE /\ UNCHANGED regVars
               /\ lk' = [lk EXCEPT !.cmW = t,
                                   !.fr[t].g = clients[f.cid],
                                   !.fr[t].pc = IF exists THEN "cg_lock" ELSE "cm_unlock"]
       /\ UNCHANGED <<conns, nConns, rg, un, st, sup, chanBuf, dp, nCalls, removed,
                      lastRet>>

\* cm.mu.RLock() returns; GetConnection and GetClientGroup look the group up
\* (lines 139-145, 152-155), GetStats starts its loop over cm.clients (202-209)
CmRLock(t) ==
    LET f == lk.fr[t]
        all == {clients[c] : c \in ClientIDs} \ {Nil}
    IN /\ f.pc = "cm_rlock"
       /\ RLockFree(lk.cmW, CmPending)
       /\ \/ /\ f.op = "GetConnection"
             /\ lk' = [lk EXCEPT !.cmR = @ \cup {t},
                                 !.fr[t].g = clients[f.cid],
                                 !.fr[t].pc = IF clients[f.cid] # Nil
                                              THEN "cg_rlock" ELSE "cm_runlock"]
          \/ /\ f.op = "GetClientGroup"
             /\ lk' = [lk EXCEPT !.cmR = @ \cup {t},
                                 !.fr[t].g = clients[f.cid],
                                 !.fr[t].pc = "cm_runlock"]
          \/ /\ f.op = "GetStats"
             /\ all = {}
             /\ lk' = [lk EXCEPT !.cmR = @ \cup {t}, !.fr[t].pc = "cm_runlock"]
          \/ /\ f.op = "GetStats"
             /\ \E n \in all :
                   lk' = [lk EXCEPT !.cmR = @ \cup {t}, !.fr[t].g = n,
                                    !.fr[t].todo = all \ {n},
                                    !.fr[t].pc = "cg_rlock"]
       /\ UNCHANGED <<conns, nConns, regVars, rg, un, st, sup, chanBuf, dp, nCalls,
                      removed, lastRet>>

\* cg.mu.Lock() of AddDevice and RemoveDevice returns (lines 46, 53)
CgLock(t) ==
    LET f == lk.fr[t]
    IN /\ f.pc = "cg_lock"
       /\ LockFree(lk.cgW[f.g], lk.cgR[f.g])
       /\ lk' = [lk EXCEPT !.cgW[f.g] = t, !.fr[t].pc = "in_cg_w"]
       /\ UNCHANGED <<conns, nConns, regVars, rg, un, st, sup, chanBuf, dp, nCalls,
                      removed, lastRet>>

\* the body and the deferred cg.mu.Unlock() of AddDevice (lines 47-48) and
\* RemoveDevice (lines 54-59); RemoveConnection goes on to GetDeviceCount
CgUnlock(t) ==
    LET f == lk.fr[t]
    IN /\ f.pc = "in_cg_w"
       /\ groups' = [groups EXCEPT ![f.g].Devices[f.did] =
                        IF f.op = "AddConnection" THEN f.id ELSE Nil]
       /\ lk' = [lk EXCEPT !.cgW[f.g] = "none",
                           !.fr[t].pc = IF f.op = "AddConnection"
                                        THEN "cm_unlock" ELSE "cg_rlock"]
       /\ UNCHANGED <<conns, nConns, clients, rg, un, st, sup, chanBuf, dp, nCalls,
                      removed, lastRet>>

\* cg.mu.RLock() of GetDevice, GetAllDevices and GetDeviceCount returns
\* (lines 64, 72, 83)
CgRLock(t) ==
    LET f == lk.fr[t]
    IN /\ f.pc = "cg_rlock"
       /\ RLockFree(lk.cgW[f.g], CgPending(f.g))
       /\ lk' = [lk EXCEPT !.cgR[f.g] = @ \cup {t}, !.fr[t].pc = "in_cg_r"]
       /\ UNCHANGED <<conns, nConns, regVars, rg, un, st, sup, chanBuf, dp, nCalls,
                      removed, lastRet>>

\* the body and the deferred cg.mu.RUnlock() of a ClientGroup read method, and
\* what its caller does with the result: RemoveConnection prunes the empty
\* group (lines 130-132), GetStats takes the next group (lines 209-211),
\* GetConnection returns (line 147), the dispatcher has its snapshot and
\* starts its loop over it (connection_handler.go lines 157-163)
CgRUnlock(t) ==
    LET f == lk.fr[t]
        readers == ReleaseRead(lk.cgR[f.g], t)
    IN /\ f.pc = "in_cg_r"
       /\ clients' = IF f.op = "RemoveConnection" /\ GroupIsEmpty(groups[f.g].Devices)
                     THEN [clients EXCEPT ![f.cid] = Nil]
                     ELSE clients
       /\ \/ /\ f.op = "RemoveConnection"
             /\ lk' = [lk EXCEPT !.cgR[f.g] = readers, !.fr[t].pc = "cm_unlock"]
          \/ /\ f.op = "GetConnection"
             /\ lk' = [lk EXCEPT !.cgR[f.g] = readers, !.fr[t].pc = "cm_runlock"]
          \/ /\ f.op = "GetClientGroup"
             /\ lk' = [lk EXCEPT !.cgR[f.g] = readers,
                                 !.fr[t].todo = GetAllDevices(f.g),
                                 !.fr[t].pc = "send"]
          \/ /\ f.op = "GetStats"
             /\ f.todo = {}
             /\ lk' = [lk EXCEPT !.cgR[f.g] = readers, !.fr[t].pc = "cm_runlock"]
          \/ /\ f.op = "GetStats"
             /\ \E n \in f.todo :
                   lk' = [lk EXCEPT !.cgR[f.g] = readers, !.fr[t].g = n,
                                    !.fr[t].todo = f.todo \ {n},
                                    !.fr[t].pc = "cg_rlock"]
       /\ UNCHANGED <<conns, nConns, groups, rg, un, st, sup, chanBuf, dp, nCalls,
                      removed, lastRet>>

\* the deferred cm.mu.Unlock() of AddConnection and RemoveConnection
CmUnlock(t) ==
    /\ lk.fr[t].pc = "cm_unlock"
    /\ lk' = [lk EXCEPT !.cmW = "none", !.fr[t] = IdleLf]
    /\ UNCHANGED <<conns, nConns, regVars, rg, un, st, sup, chanBuf, dp, nCalls,
                   removed, lastRet>>

\* the deferred cm.mu.RUnlock() of the read methods; a dispatcher that got a
\* group from GetClientGroup calls its GetAllDevices next
\* (connection_handler.go lines 152-157)
CmRUnlock(t) ==
    LET f == lk.fr[t]
    IN /\ f.pc = "cm_runlock"
       /\ lk' = [lk EXCEPT !.cmR = ReleaseCmRead(@, t),
                           !.fr[t] = IF f.op = "GetClientGroup" /\ f.g # Nil
                                     THEN [f EXCEPT !.pc = "cg_rlock"]
                                     ELSE IdleLf]
       /\ UNCHANGED <<conns, nConns, regVars, rg, un, st, sup, chanBuf, dp, nCalls,
                      removed, lastRet>>

\* a send step: the dispatcher's device.Stream.Send to the next device of its
\* snapshot (connection_handler.go lines 163-166), returning when none is
\* left; the supervisor's stream.Send of a heartbeat, whose failure at the
\* limit goes on to UnregisterDevice and its GetConnection
\* (notification_handler.go lines 192-202, connection_handler.go line 68)
LkSend(t, ok) ==
    LET f == lk.fr[t]
    IN /\ f.pc = "send"
       /\ \/ /\ f.op = "GetClientGroup"
             /\ f.todo = {}
             /\ ok
             /\ lk' = [lk EXCEPT !.fr[t] = IdleLf]
          \/ /\ f.op = "GetClientGroup"
             /\ \E c \in f.todo : lk' = [lk EXCEPT !.fr[t].todo = f.todo \ {c}]
          \/ /\ f.op = "sendHeartbeats"
             /\ lk' = [lk EXCEPT !.fr[t] = IF ok THEN IdleLf
                                           ELSE [f EXCEPT !.op = "GetConnection",
                                                          !.pc = "cm_rlock"]]
       /\ UNCHANGED <<conns, nConns, regVars, rg, un, st, sup, chanBuf, dp, nCalls,
                      removed, lastRet>>

\* a step of goroutine t inside a ConnectionManager method or at a send
LockStep(t) ==
    \/ CmLock(t)
    \/ CmRLock(t)
    \/ CgLock(t)
    \/ CgUnlock(t)
    \/ CgRLock(t)
    \/ CgRUnlock(t)
    \/ CmUnlock(t)
    \/ CmRUnlock(t)
    \/ \E ok \in BOOLEAN : LkSend(t, ok)

\* ------------------------------------------------------ specifications
Init ==
    /\ conns = [i \in ConnIds |-> BlankConn]
    /\ nConns = 0
    /\ groups = [g \in GroupIds |-> NewClientGroup("")]
    /\ clients = [c \in ClientIDs |-> Nil]
    /\ rg = [p \in CtlProcs |-> IdleRg]
    /\ un = [p \in UnregCallers |-> IdleUn]
    /\ st = [s \in Streams |-> IdleSt]
    /\ sup = [s \in Streams |-> IdleSup]
    /\ chanBuf = [s \in Streams |-> "empty"]
    /\ dp = [p \in DispProcs |-> IdleDp]
    /\ nCalls = 0
    /\ removed = [i \in ConnIds |-> FALSE]
    /\ lastRet = NoRet
    /\ lk = IdleLk

\* the control RPCs of the goroutines K, with ids from CS and DS
Control(K, CS, DS, SS) ==
    \/ \E p \in K, c \in CS, d \in DS, s \in SS : RegisterDevice(p, c, d, s)
    \/ \E p \in K : RegisterAdd(p)
    \/ \E p \in K, c \in CS, d \in DS : UnregisterDevice(p, c, d)

\* the steps of UnregisterDevice, for the callers U
Unregistering(U) ==
    \/ \E p \in U : UnregChkStream(p)
    \/ \E p \in U : UnregChkActive(p)
    \/ \E p \in U : UnregClrActive(p)
    \/ \E p \in U : UnregClrStream(p)
    \/ \E p \in U : UnregRemove(p)

\* the stream contexts S, subscribing with connection ids from US
Streaming(S, US) ==
    \/ \E s \in S, u \in US : StreamNotifications(s, u)
    \/ \E s \in S : AttachGet(s)
    \/ \E s \in S : AttachSetStream(s)
    \/ \E s \in S : AttachSetActive(s)
    \/ \E s \in S : StreamInitHeartbeat(s)
    \/ \E s \in S : StreamMakeChan(s)
    \/ \E s \in S : StreamSpawn(s)
    \/ \E s \in S : StreamSignalStop(s)
    \/ \E s \in S : DetachGet(s)
    \/ \E s \in S : DetachClrStream(s)
    \/ \E s \in S : DetachClrActive(s)

\* the stream contexts S up to the start of their supervisors: transports
\* that stay open
Attachment(S, US) ==
    \/ \E s \in S, u \in US : StreamNotifications(s, u)
    \/ \E s \in S : AttachGet(s)
    \/ \E s \in S : AttachSetStream(s)
    \/ \E s \in S : AttachSetActive(s)
    \/ \E s \in S : StreamInitHeartbeat(s)
    \/ \E s \in S : StreamMakeChan(s)
    \/ \E s \in S : StreamSpawn(s)

\* the heartbeat supervisors of the streams S
Supervising(S) ==
    \/ \E s \in S : SupTick(s)
    \/ \E s \in S : SupStopped(s)
    \/ \E s \in S : SupChkStream(s)
    \/ \E s \in S, ok \in BOOLEAN : SupSend(s, ok)
    \/ \E s \in S : SupFailWrite(s)
    \/ \E s \in S : SupFailCheck(s)

\* the dispatch calls of the goroutines D, to clients from CS
Dispatching(D, CS) ==
    \/ \E p \in D, c \in CS : SendNotificationToClient(p, c)
    \/ \E p \in D : BroadcastToAll(p)
    \/ \E p \in D : BroadcastNext(p)
    \/ \E p \in D : DispatchSnapshot(p)
    \/ \E p \in D : DispatchChkStream(p)
    \/ \E p \in D : DispatchChkActive(p)
    \/ \E p \in D, ok \in BOOLEAN : DispatchSend(p, ok)
    \/ \E p \in D : DispatchUpdRead(p)
    \/ \E p \in D : DispatchUpdWrite(p)
    \/ \E p \in D : DispatchLoopEnd(p)

\* the statistics queries of the goroutines D
Querying(D) ==
    \/ \E p \in D : GetConnectionStats(p)
    \/ \E p \in D : StatsClientIDs(p)

\* Registry: two control goroutines registering and unregistering over all
\* ids, the empty ones included, and one stream attaching a device
Next ==
    \/ Control({"k1", "k2"}, ClientIDs \cup {""}, DeviceIDs \cup {""}, {"svc1"})
    \/ Unregistering({"k1", "k2"})
    \/ Streaming({"s1"}, {"a_c"})

Spec == Init /\ [][Next]_vars

\* Register: one device, registered under two service names and unregistered
\* by a control goroutine, attached by a stream and notified by a dispatcher
NextRegister ==
    \/ Control({"k1"}, {"a"}, {"c"}, ServiceNames)
    \/ Unregistering({"k1"})
    \/ Streaming({"s1"}, {"a_c"})
    \/ Dispatching({"n1"}, {"a"})

SpecRegister == Init /\ [][NextRegister]_vars

\* Stream: one device, registered and unregistered by a control goroutine and
\* attached by two streams
NextStream ==
    \/ Control({"k1"}, {"a"}, {"c"}, {"svc1"})
    \/ Unregistering({"k1"})
    \/ Streaming({"s1", "s2"}, {"a_c"})

SpecStream == Init /\ [][NextStream]_vars

\* Heartbeat: one device, registered by a control goroutine and attached by
\* two streams; the supervisor of the first stream runs and evicts
NextHeartbeat ==
    \/ \E p \in {"k1"} : RegisterDevice(p, "a", "c", "svc1")
    \/ \E p \in {"k1"} : RegisterAdd(p)
    \/ Unregistering({"s1"})
    \/ Streaming({"s1", "s2"}, {"a_c"})
    \/ Supervising({"s1"})

SpecHeartbeat == Init /\ [][NextHeartbeat]_vars

\* Dispatch: the two devices of one client, one stream, one dispatch goroutine
NextDispatch ==
    \/ Control({"k1"}, {"a"}, {"b_c", "c"}, {"svc1"})
    \/ Unregistering({"k1"})
    \/ Streaming({"s1"}, {"a_b_c", "a_c"})
    \/ Dispatching({"n1"}, {"a", "a_b"})

SpecDispatch == Init /\ [][NextDispatch]_vars

\* Count: one device, registered by a control goroutine and attached by a
\* stream, and two dispatch goroutines notifying it at the same time
NextCount ==
    \/ \E p \in {"k1"} : RegisterDevice(p, "a", "c", "svc1")
    \/ \E p \in {"k1"} : RegisterAdd(p)
    \/ Streaming({"s1"}, {"a_c"})
    \/ Dispatching({"n1", "n2"}, {"a"})

SpecCount == Init /\ [][NextCount]_vars

\* Fanout: the two devices of one client, registered by a control goroutine,
\* each attached by a stream of its own, and one dispatch goroutine
NextFanout ==
    \/ \E p \in {"k1"}, d \in DeviceIDs : RegisterDevice(p, "a", d, "svc1")
    \/ \E p \in {"k1"} : RegisterAdd(p)
    \/ Streaming({"s1"}, {"a_b_c"})
    \/ Streaming({"s2"}, {"a_c"})
    \/ Dispatching({"n1"}, {"a"})

SpecFanout == Init /\ [][NextFanout]_vars

\* Broadcast: one device for each of two clients, registered by a control
\* goroutine, each attached by a stream of its own, and one dispatch goroutine
NextBroadcast ==
    \/ \E p \in {"k1"}, c \in ClientIDs : RegisterDevice(p, c, "c", "svc1")
    \/ \E p \in {"k1"} : RegisterAdd(p)
    \/ Streaming({"s1"}, {"a_c"})
    \/ Streaming({"s2"}, {"a_b_c"})
    \/ Dispatching({"n1"}, {"a"})

SpecBroadcast == Init /\ [][NextBroadcast]_vars

\* Evict: one device, registered and unregistered by a control goroutine and
\* attached by one stream, whose supervisor runs and evicts
NextEvict ==
    \/ Control({"k1"}, {"a"}, {"c"}, {"svc1"})
    \/ Unregistering({"k1", "s1"})
    \/ Streaming({"s1"}, {"a_c"})
    \/ Supervising({"s1"})

SpecEvict == Init /\ [][NextEvict]_vars

\* Attach: one device, registered by a control goroutine and attached by two
\* streams one after the other, the supervisor of the first stream running;
\* between a stream's lookup of the Connection and the start of its
\* supervisor no other goroutine takes a step
NextAttach ==
    \/ \E p \in {"k1"} : AttachAlone(p) /\ RegisterDevice(p, "a", "c", "svc1")
    \/ \E p \in {"k1"} : AttachAlone(p) /\ RegisterAdd(p)
    \/ AttachAlone("k1") /\ Unregistering({"s1"})
    \/ AttachAlone("s1") /\ Streaming({"s1"}, {"a_c"})
    \/ AttachAlone("s2") /\ Streaming({"s2"}, {"a_c"})
    \/ AttachAlone("k1") /\ Supervising({"s1"})

SpecAttach == Init /\ [][NextAttach]_vars

\* Stats: one device for each of two clients, registered and unregistered by
\* a control goroutine, one of them attached by a stream whose supervisor
\* runs and evicts, and one goroutine asking for the statistics
NextStats ==
    \/ Control({"k1"}, ClientIDs, {"c"}, {"svc1"})
    \/ Unregistering({"k1", "s1"})
    \/ Streaming({"s1"}, {"a_c"})
    \/ Supervising({"s1"})
    \/ Querying({"n1"})

SpecStats == Init /\ [][NextStats]_vars

\* one control goroutine over ids that contain the separator, and one stream
\* opened with a UniqueID that AddConnection has returned
NextResolve ==
    \/ Control({"k1"}, ClientIDs, DeviceIDs, {"svc1"})
    \/ Unregistering({"k1"})
    \/ Streaming({"s1"}, {"a_b_c", "a_c"})

SpecResolve == Init /\ [][NextResolve]_vars

\* Teardown: the goroutines of SpecHeartbeat; a stream context that has sent
\* its stop signal is runnable and the scheduler runs it
Teardown(s) == DetachGet(s) \/ DetachClrStream(s) \/ DetachClrActive(s)

SpecTeardown ==
    /\ Init /\ [][NextHeartbeat]_vars
    /\ \A s \in Streams : WF_vars(Teardown(s))

\* Beat: one device attached by two streams one after the other, the
\* supervisors of both running and the transport of the second staying open;
\* between a stream's lookup of the Connection and the start of its
\* supervisor no other goroutine takes a step
NextBeat ==
    \/ \E p \in {"k1"} : AttachAlone(p) /\ RegisterDevice(p, "a", "c", "svc1")
    \/ \E p \in {"k1"} : AttachAlone(p) /\ RegisterAdd(p)
    \/ AttachAlone("k1") /\ Unregistering({"s1", "s2"})
    \/ AttachAlone("s1") /\ Streaming({"s1"}, {"a_c"})
    \/ AttachAlone("s2") /\ Attachment({"s2"}, {"a_c"})
    \/ AttachAlone("k1") /\ Supervising({"s1", "s2"})

SpecBeat == Init /\ [][NextBeat]_vars

\* Locks: three goroutines in the ConnectionManager methods, lock by lock
NextLocks ==
    \/ \E t \in LockThreads, op \in LockOps, c \in ClientIDs, d \in {"c"} :
          LkCall(t, op, c, d)
    \/ \E t \in LockThreads : CmLock(t)
    \/ \E t \in LockThreads : CmRLock(t)
    \/ \E t \in LockThreads : CgLock(t)
    \/ \E t \in LockThreads : CgUnlock(t)
    \/ \E t \in LockThreads : CgRLock(t)
    \/ \E t \in LockThreads : CgRUnlock(t)
    \/ \E t \in LockThreads : CmUnlock(t)
    \/ \E t \in LockThreads : CmRUnlock(t)
    \/ \E t \in LockThreads, ok \in BOOLEAN : LkSend(t, ok)

SpecLocks == Init /\ [][NextLocks]_vars

\* ------------------------------------------------------------ properties
\* a handler is between its two writes of Stream and IsActive of Connection i
MidWrite(i) ==
    \/ \E s \in Streams : st[s].aconn = i /\ st[s].pc \in {"att_active", "det_active"}
    \/ \E p \in UnregCallers : un[p].conn = i /\ un[p].pc = "clr_stream"

\* C1: every Connection has IsActive = true exactly when its Stream is set.
\* Stated here for the Connections that no handler is in the middle of
\* updating, which the claim's "every reachable state" includes.
C1_ActiveIffStream ==
    \A i \in 1..nConns :
        ~MidWrite(i) => (conns[i].IsActive <=> conns[i].Stream # NoStream)

\* C2: a supervisor whose last two heartbeat sends both failed, with no
\* successful send between them, does not go back to waiting for a tick: it
\* is unregistering its Connection or has terminated.
C2_EvictsAtTwoFailures ==
    \A s \in Streams : sup[s].fails = HeartbeatFailLimit => sup[s].pc # "wait"

\* C3: a SendNotificationToClient call returns the delivery error exactly when
\* none of its sends succeeded; a call that returns nil counted at least one
\* success, and its successes and failures add up to the devices it iterated.
C3_DeliveryErrorIffNoSuccess ==
    lastRet.op = "SendNotificationToClient" =>
        /\ (lastRet.ret # "ok") <=> (lastRet.okSends = 0)
        /\ lastRet.successCount = lastRet.okSends
        /\ lastRet.successCount + lastRet.failCount = lastRet.totalDevices

\* C3 witness: a call has returned nil although one of the client's devices
\* got no notification
C3_PartialSuccess ==
    /\ lastRet.op = "SendNotificationToClient"
    /\ lastRet.ret = "ok"
    /\ lastRet.successCount < lastRet.totalDevices

\* C4: a RegisterDevice call that finds its (clientID, deviceID) registered
\* returns the registered object and changes no Connection and no group; a
\* call that creates the Connection returns the object it has stored.
C4_ReRegisterReturnsSame ==
    [][\A p \in CtlProcs :
          (lastRet'.by = p /\ lastRet'.op = "RegisterDevice" /\ lastRet'.ret = "ok") =>
             IF rg[p].pc = "idle"
             THEN /\ lastRet'.conn # Nil
                  /\ lastRet'.conn = GetConnection(lastRet'.cid, lastRet'.did)
                  /\ conns' = conns
                  /\ groups' = groups
                  /\ clients' = clients
             ELSE lastRet'.conn = groups'[clients'[lastRet'.cid]].Devices[lastRet'.did]]_vars

\* C4 witness: a RegisterDevice call has returned a Connection that is
\* streaming and has been notified, so one registered before the call
C4_ReRegistered ==
    /\ lastRet.op = "RegisterDevice"
    /\ lastRet.ret = "ok"
    /\ conns[lastRet.conn].IsActive
    /\ conns[lastRet.conn].Stream # NoStream
    /\ conns[lastRet.conn].NotificationCount > 0

\* C5: no client of the registry maps to a group without devices; a client
\* appears only together with its first device and disappears only in the
\* step that removes its last one.
C5_NoEmptyGroup ==
    /\ [](\A c \in ClientIDs :
             clients[c] # Nil => GetDeviceCount(clients[c]) > 0)
    /\ [][\A c \in ClientIDs :
             /\ (clients[c] # Nil /\ clients'[c] = Nil) =>
                   /\ GetDeviceCount(clients[c]) = 1
                   /\ lastRet'.op = "UnregisterDevice"
                   /\ lastRet'.cid = c
                   /\ GetDevice(clients[c], lastRet'.did) # Nil
             /\ (clients[c] = Nil /\ clients'[c] # Nil) =>
                   /\ lastRet'.op = "RegisterDevice"
                   /\ lastRet'.cid = c
                   /\ \A d \in DeviceIDs :
                         groups'[clients'[c]].Devices[d] # Nil <=> d = lastRet'.did]_vars

\* C5 witness: an unregister has just removed the last device of one client,
\* which is no longer listed, while another client is
C5_LastDeviceRemoved ==
    /\ lastRet.op = "UnregisterDevice"
    /\ lastRet.ret = "ok"
    /\ lastRet.cid \notin GetAllClientIDs
    /\ GetAllClientIDs # {}

\* C6: a Connection that RemoveConnection has taken out of the registry is
\* inactive and has no Stream, at the removal and ever after.
C6_RemovedIsInactive ==
    \A i \in ConnIds : removed[i] => ~conns[i].IsActive /\ conns[i].Stream = NoStream

\* C7: once its Connection has left Streaming, a supervisor does not get past
\* the activity check of a later tick: by that tick it has terminated.
C7_NoTickAfterLeaving ==
    \A s \in Streams : sup[s].late # "ticked"

\* C8: the stop signal a supervisor receives is the one sent by the context of
\* the stream it was started for.
C8_StoppedByOwnStream ==
    \A s \in Streams : sup[s].stoppedBy \in {"none", s}

\* C9: no dispatch call invokes Send on a nil Stream.
C9_NoNilSend ==
    \A p \in DispProcs : dp[p].pc # "panic"

\* C10: no goroutine waits for ConnectionManager.mu while it holds a
\* ClientGroup.mu, and whenever some goroutine is inside a method, some
\* goroutine inside a method can take its next step.
C10_LockOrderNoDeadlock ==
    /\ \A t \in LockThreads :
          lk.fr[t].pc \in {"cm_lock", "cm_rlock"} => ~HoldsCg(t)
    /\ (\E t \in LockThreads : lk.fr[t].pc # "idle") =>
          \E t \in LockThreads : ENABLED LockStep(t)

\* C10 witness: a goroutine holds ConnectionManager.mu and a ClientGroup.mu
\* at once while another one waits for ConnectionManager.mu
C10_NestedWhileWaiting ==
    \E t, u \in LockThreads :
        /\ t # u
        /\ HoldsCm(t)
        /\ HoldsCg(t)
        /\ lk.fr[u].pc \in {"cm_lock", "cm_rlock"}
\* C11: no send, of a notification or of a heartbeat, is performed while the
\* sender holds ConnectionManager.mu or any ClientGroup.mu
C11_NoLockHeldAtSend ==
    \A t \in LockThreads :
        lk.fr[t].pc = "send" =>
            /\ lk.cmW # t /\ t \notin lk.cmR
            /\ \A g \in GroupIds : lk.cgW[g] # t /\ t \notin lk.cgR[g]

\* a dispatcher is about to send to a device of its snapshot while another
\* goroutine holds ConnectionManager.mu for writing
C11_SendBesideWriter ==
    \E t \in LockThreads :
        /\ lk.fr[t].pc = "send"
        /\ lk.fr[t].op = "GetClientGroup"
        /\ lk.fr[t].todo # {}
        /\ lk.cmW \notin {"none", t}

\* C12: once every dispatch call has returned, each Connection's
\* NotificationCount is the number of notification sends to it that succeeded,
\* also when two dispatch calls ran at the same time
C12_CountIsSuccessfulSends ==
    (\A p \in DispProcs : dp[p].pc = "idle") =>
        \A i \in ConnIds : conns[i].NotificationCount = conns[i].Delivered

\* C13: when SendNotificationToClient returns a delivery result, every device
\* of its snapshot was examined, each one found with a Stream and active got
\* exactly one Send call, whatever the other sends returned, each other one
\* got none, and each device's NotificationCount is the number of its Send
\* calls that returned nil; a first call whose sends all work reports success
\* and takes every device's NotificationCount from 0 to 1
C13_OneAttemptPerActiveDevice ==
    (lastRet.op = "SendNotificationToClient" /\ lastRet.ret # "no devices found for client") =>
        /\ lastRet.snapshot = lastRet.active \cup lastRet.inactive
        /\ lastRet.active \cap lastRet.inactive = {}
        /\ \A i \in lastRet.active : lastRet.attempts[i] = 1
        /\ \A i \in ConnIds \ lastRet.active : lastRet.attempts[i] = 0
        /\ \A i \in lastRet.snapshot : conns[i].NotificationCount = conns[i].Delivered
        /\ (nCalls = 1 /\ lastRet.snapshot # {} /\
              lastRet.okSends = Cardinality(lastRet.snapshot)) =>
               /\ lastRet.ret = "ok"
               /\ \A i \in lastRet.snapshot : conns[i].NotificationCount = 1

\* the first call returns success after a Send call for each of the two
\* attached devices of the client, and both counts are 1
C13_BothDevicesNotified ==
    /\ lastRet.op = "SendNotificationToClient"
    /\ lastRet.ret = "ok"
    /\ nCalls = 1
    /\ Cardinality(lastRet.active) = 2
    /\ \A i \in lastRet.active : conns[i].NotificationCount = 1

\* a call returns after a failed Send to one active device and a successful
\* Send to the other
C13_FailedThenSent ==
    /\ lastRet.op = "SendNotificationToClient"
    /\ Cardinality(lastRet.active) = 2
    /\ lastRet.failCount = 1
    /\ lastRet.successCount = 1

C15_SnapshotAtOneInstant ==
    /\ []((\A p \in DispProcs : dp[p].pc \notin {"upd_rd", "upd_wr"}) =>
              \A i \in ConnIds : conns[i].NotificationCount = conns[i].Delivered)
    /\ [][\A p \in DispProcs :
            (dp[p].op = "SendNotificationToClient" /\ dp[p].pc = "snap" /\
             dp'[p].pc = "loop") =>
                dp'[p].todo =
                    IF clients[dp[p].cid] = dp[p].g
                    THEN {conns_i \in ConnIds :
                            \E d \in DeviceIDs :
                                groups[clients[dp[p].cid]].Devices[d] = conns_i}
                    ELSE {}]_vars

\* a device unregistered while the call ran was in the snapshot and has had
\* its one send and its counter update
C15_UnregisteredYetIncluded ==
    \E p \in DispProcs, i \in ConnIds :
        /\ dp[p].op = "SendNotificationToClient"
        /\ dp[p].pc = "loop"
        /\ i \in dp[p].snapshot \ dp[p].todo
        /\ removed[i]
        /\ dp[p].attempts[i] = 1
        /\ conns[i].NotificationCount = 1

\* C16: the steps of a heartbeat eviction change and remove only the
\* Connection the evicting supervisor was started for; every other Connection
\* keeps its state and its place in the registry
C16_EvictsOnlyOwnConnection ==
    [][\A s \in Streams :
          (un[s].pc # "idle" /\ un'[s] # un[s]) =>
              \A i \in ConnIds \ {sup[s].conn} :
                  /\ conns'[i] = conns[i]
                  /\ removed'[i] = removed[i]]_vars

\* C17: every registered Connection has UniqueID = ClientID + "_" + DeviceID,
\* and a lookup by that UniqueID returns the very Connection the lookup by
\* (ClientID, DeviceID) returns, also for ids that contain "_"
C17_UniqueIDLookupAgrees ==
    \A c \in ClientIDs, d \in DeviceIDs :
        LET i == GetConnection(c, d)
        IN i # Nil =>
              /\ conns[i].UniqueID = c \o "_" \o d
              /\ GetConnectionByUniqueID(conns[i].UniqueID) = {i}

\* C18: every Connection stored in the registry is stored in the group of its
\* own ClientID under the key of its own DeviceID, and under no second key
C18_StoredUnderOwnIds ==
    \A c \in ClientIDs :
        clients[c] # Nil =>
            /\ groups[clients[c]].ClientID = c
            /\ \A d \in DeviceIDs :
                  LET i == groups[clients[c]].Devices[d]
                  IN i # Nil =>
                        /\ conns[i].ClientID = c
                        /\ conns[i].DeviceID = d
                        /\ \A c2 \in ClientIDs, d2 \in DeviceIDs :
                              (clients[c2] # Nil /\
                               groups[clients[c2]].Devices[d2] = i) =>
                                  (c2 = c /\ d2 = d)

\* two goroutines registered the same ids at the same time: two Connection
\* objects carry them and the registry holds one
C18_SecondRegistrationReplaced ==
    \E i, j \in ConnIds :
        /\ i # j
        /\ conns[i].ClientID # ""
        /\ conns[i].ClientID = conns[j].ClientID
        /\ conns[i].DeviceID = conns[j].DeviceID
        /\ ~removed[i] /\ ~removed[j]
        /\ GetConnection(conns[i].ClientID, conns[i].DeviceID) = j

\* C19: when an attach that ran without another operation in between
\* completes, its Connection has the stream as Stream, IsActive = TRUE,
\* HeartbeatFailCount = 0 and LastHeartbeatAt set by the attach, and the step
\* that completes it starts exactly one supervisor, bound to that Connection
C19_AttachPostcondition ==
    [][\A s \in Streams :
          (st[s].pc = "spawn" /\ st'[s].pc = "serve") =>
              LET c == st[s].conn
              IN /\ conns'[c].Stream = s
                 /\ conns'[c].IsActive
                 /\ conns'[c].HeartbeatFailCount = 0
                 /\ conns'[c].LastHeartbeatAt = "attach"
                 /\ sup[s].pc = "off"
                 /\ sup'[s].pc = "wait"
                 /\ sup'[s].conn = c
                 /\ \A t \in Streams \ {s} : sup'[t] = sup[t]]_vars

\* a second stream has attached a Connection that had a failed heartbeat: the
\* counter is 0 again, and the supervisors of both streams are bound to it
C19_ReattachedAfterFailure ==
    /\ st["s2"].pc = "serve"
    /\ sup["s2"].pc = "wait"
    /\ sup["s1"].conn = sup["s2"].conn
    /\ sup["s1"].fails = 1
    /\ conns[st["s2"].conn].Stream = "s2"
    /\ conns[st["s2"].conn].IsActive
    /\ conns[st["s2"].conn].HeartbeatFailCount = 0

\* C20: when the DetachStream of a stream that attached a Connection
\* completes, the Connection has IsActive = FALSE and no Stream; a
\* SendNotificationToClient that examines the Connection after that makes no
\* Send call for it and counts it as failed, and a call whose devices were all
\* counted so returns the delivery error
C20_DetachedIsSkipped ==
    [][/\ \A s \in Streams :
             (st[s].pc = "det_active" /\ st'[s].pc = "done") =>
                 /\ ~conns'[st[s].aconn].IsActive
                 /\ conns'[st[s].aconn].Stream = NoStream
       /\ \A p \in DispProcs, i \in ConnIds :
             (dp[p].op = "SendNotificationToClient" /\ dp[p].pc = "loop" /\
              i \in dp[p].todo /\ i \notin dp'[p].todo /\ conns[i].Detached) =>
                 /\ dp'[p].pc = "loop"
                 /\ i \in dp'[p].inactive
                 /\ dp'[p].attempts = dp[p].attempts
                 /\ dp'[p].failCount = dp[p].failCount + 1
       /\ (lastRet'.op = "SendNotificationToClient" /\ lastRet'.snapshot # {} /\
           lastRet'.inactive = lastRet'.snapshot) =>
              lastRet'.ret = "failed to send notification to any device"]_vars

\* a call returns the delivery error for a client whose only device was
\* attached and then detached
C20_OnlyDeviceDetached ==
    /\ lastRet.op = "SendNotificationToClient"
    /\ lastRet.ret = "failed to send notification to any device"
    /\ Cardinality(lastRet.snapshot) = 1
    /\ \A i \in lastRet.snapshot :
          /\ conns[i].Detached
          /\ i \in lastRet.inactive
          /\ lastRet.attempts[i] = 0
          /\ conns[i].NotificationCount = 0

\* C21: a RegisterDevice with an empty clientID or an empty deviceID returns a
\* validation error and no Connection, and the step changes neither the
\* registry nor any Connection
C21_EmptyIdRejected ==
    [][(lastRet'.op = "RegisterDevice" /\ (lastRet'.cid = "" \/ lastRet'.did = "")) =>
          /\ lastRet'.ret \in {"client_id is required", "device_id is required"}
          /\ lastRet'.conn = Nil
          /\ clients' = clients
          /\ groups' = groups
          /\ conns' = conns
          /\ nConns' = nConns]_vars

\* a RegisterDevice with an empty deviceID has just been rejected while a
\* device of the same client is registered
C21_RejectedBesideRegistered ==
    /\ lastRet.op = "RegisterDevice"
    /\ lastRet.cid = "a"
    /\ lastRet.did = ""
    /\ lastRet.ret = "device_id is required"
    /\ clients["a"] # Nil

\* C22: an UnregisterDevice for ids under which no Connection is registered,
\* at its GetConnection or, after another goroutine removed the Connection,
\* at its RemoveConnection, returns "device not found"; and a return of
\* "device not found" leaves cm.clients and every group as they were
C22_UnregisterUnknown ==
    [][/\ \A p \in CtlProcs :
             (un[p].pc = "remove" /\ un'[p].pc = "idle" /\
              GetConnection(un[p].cid, un[p].did) = Nil) =>
                 (lastRet'.by = p /\ lastRet'.ret = "device not found")
       /\ \A p \in CtlProcs :
             (rg[p].pc = "idle" /\ un[p].pc = "idle" /\ lastRet'.by = p /\
              lastRet'.op = "UnregisterDevice" /\ lastRet'.cid # "" /\
              lastRet'.did # "" /\ GetConnection(lastRet'.cid, lastRet'.did) = Nil) =>
                 lastRet'.ret = "device not found"
       /\ (lastRet'.op = "UnregisterDevice" /\ lastRet'.ret = "device not found") =>
              (clients' = clients /\ groups' = groups /\ removed' = removed)]_vars

\* the second of two unregistrations of ("a", "c") has returned "device not
\* found", and the other device of the client is still registered
C22_SecondUnregisterNotFound ==
    /\ lastRet.op = "UnregisterDevice"
    /\ lastRet.cid = "a" /\ lastRet.did = "c"
    /\ lastRet.ret = "device not found"
    /\ \E i \in ConnIds : removed[i] /\ conns[i].ClientID = "a" /\ conns[i].DeviceID = "c"
    /\ GetConnection("a", "b_c") # Nil

\* C23: an AttachStream for ids under which no Connection is registered
\* returns "connection not found"; the step changes no Connection, starts no
\* supervisor and leaves cm.clients and every group as they were
C23_AttachUnknown ==
    [][\A s \in Streams :
          (st[s].pc = "att_get" /\ st'[s] # st[s] /\
           (clients[conns[st[s].conn].ClientID] = Nil \/
            groups[clients[conns[st[s].conn].ClientID]].Devices[conns[st[s].conn].DeviceID]
                = Nil)) =>
              /\ st'[s].pc = "done"
              /\ lastRet'.by = s
              /\ lastRet'.ret = "connection not found"
              /\ conns' = conns
              /\ sup' = sup
              /\ sup[s].pc = "off"
              /\ clients' = clients
              /\ groups' = groups]_vars

\* a stream whose Connection was unregistered before its AttachStream has
\* returned "connection not found" with no supervisor started
C23_AttachAfterUnregister ==
    /\ lastRet.op = "StreamNotifications"
    /\ lastRet.ret = "connection not found"
    /\ lastRet.cid = "a" /\ lastRet.did = "c"
    /\ st[lastRet.by].pc = "done"
    /\ sup[lastRet.by].pc = "off"
    /\ \A i \in ConnIds : conns[i].Stream = NoStream /\ ~conns[i].IsActive

\* C24: a DetachStream for ids under which no Connection is registered
\* returns without an error and changes no Connection, no supervisor and no
\* map; and the writes of a DetachStream on a Connection that has no Stream
\* and is inactive leave every field of the Connection as it was
C24_DetachNoOpAndIdempotent ==
    [][\A s \in Streams :
          /\ (st[s].pc = "det_get" /\ st'[s] # st[s] /\
              GetConnection(conns[st[s].conn].ClientID,
                            conns[st[s].conn].DeviceID) = Nil) =>
                 /\ st'[s].pc = "done"
                 /\ lastRet'.by = s /\ lastRet'.ret = "ok"
                 /\ conns' = conns /\ sup' = sup /\ chanBuf' = chanBuf
                 /\ clients' = clients /\ groups' = groups
          /\ (st[s].pc \in {"det_stream", "det_active"} /\ st'[s] # st[s] /\
              conns[st[s].aconn].Stream = NoStream /\
              ~conns[st[s].aconn].IsActive) =>
                 /\ [conns'[st[s].aconn] EXCEPT !.Detached = FALSE] =
                        [conns[st[s].aconn] EXCEPT !.Detached = FALSE]
                 /\ \A i \in ConnIds \ {st[s].aconn} : conns'[i] = conns[i]]_vars

\* two streams attached the same Connection and both have detached it: the
\* second DetachStream ran on a Connection already detached
C24_DetachedTwice ==
    /\ lastRet.op = "StreamNotifications"
    /\ lastRet.by = "s2"
    /\ lastRet.ret = "ok"
    /\ lastRet.conn # Nil
    /\ st["s1"].pc = "done" /\ st["s2"].pc = "done"
    /\ sup["s1"].conn = lastRet.conn /\ sup["s2"].conn = lastRet.conn
    /\ GetConnection("a", "c") = lastRet.conn
    /\ conns[lastRet.conn].Detached
    /\ conns[lastRet.conn].Stream = NoStream
    /\ ~conns[lastRet.conn].IsActive

\* C25: the statistics GetStats computes are the number of clients that have
\* a registered device at that moment and the number of Connections
\* registered at that moment
C25_StatsCountRegistry ==
    [][\A p \in DispProcs :
          (dp[p].pc = "idle" /\ dp'[p].op = "GetConnectionStats") =>
              /\ dp'[p].stats.total_clients =
                    Cardinality({c \in ClientIDs :
                                   \E d \in DeviceIDs : GetConnection(c, d) # Nil})
              /\ dp'[p].stats.total_devices =
                    Cardinality({GetConnection(c, d) :
                                   c \in ClientIDs, d \in DeviceIDs} \ {Nil})]_vars

\* statistics taken after a heartbeat eviction and an unregistration: one
\* client with one device is left of two Connections that were registered
C25_StatsAfterEviction ==
    \E p \in DispProcs :
        /\ dp[p].op = "GetConnectionStats"
        /\ dp[p].stats = [total_clients |-> 1, total_devices |-> 1]
        /\ sup["s1"].exit = "evicted"
        /\ \E i \in ConnIds : removed[i]

\* C26: a StreamNotifications call attaches the Connection whose registration
\* returned the UniqueID it supplies: when its AttachStream finds a
\* Connection, that is every registered Connection carrying that UniqueID
C26_AttachesIssuedConnection ==
    [][\A s \in Streams :
          (st[s].pc = "att_get" /\ st'[s].pc = "att_stream") =>
              \A j \in 1..nConns :
                  (/\ GetConnection(conns[j].ClientID, conns[j].DeviceID) = j
                   /\ conns[j].UniqueID = conns[st[s].conn].UniqueID) =>
                      st'[s].aconn = j]_vars

\* C27: once a newer stream has overwritten the Stream of a Connection, the
\* end of the superseded stream's context leaves the newer Stream and
\* IsActive of the Connection as they are, and its stop signal goes into no
\* other stream's stop channel
C27_SupersededLeavesNewer ==
    [][\A s \in Streams :
          /\ (st[s].pc \in {"det_stream", "det_active"} /\ st'[s] # st[s] /\
              conns[st[s].aconn].Stream \notin {s, NoStream}) =>
                 /\ conns'[st[s].aconn].Stream = conns[st[s].aconn].Stream
                 /\ conns'[st[s].aconn].IsActive = conns[st[s].aconn].IsActive
          /\ (st[s].pc = "serve" /\ st'[s].pc = "det_get") =>
                 \A ch \in Streams \ {s} : chanBuf'[ch] = chanBuf[ch]]_vars

\* C28: the Connections that RegisterDevice calls have returned for the same
\* ids, with no unregister of those ids since, are one instance, and it is
\* the one stored in the registry
C28_RegistersShareInstance ==
    \A i, j \in 1..nConns :
        (/\ conns[i].ClientID = conns[j].ClientID
         /\ conns[i].DeviceID = conns[j].DeviceID
         /\ ~removed[i] /\ ~removed[j]) =>
            /\ i = j
            /\ GetConnection(conns[i].ClientID, conns[i].DeviceID) = i

\* C29: a supervisor goes on to unregister its Connection only when its last
\* two heartbeat sends both failed with no successful send between them, and
\* the step of a successful heartbeat leaves HeartbeatFailCount at 0
C29_EvictsAfterTwoConsecutive ==
    [][\A s \in Streams :
          /\ (sup[s].pc = "fail_chk" /\ sup'[s].pc = "evict") =>
                 sup[s].fails = HeartbeatFailLimit
          /\ (sup[s].pc = "send" /\ sup'[s].pc = "wait") =>
                 conns'[sup[s].conn].HeartbeatFailCount = 0]_vars

\* C30: a supervisor does not go on to unregister a Connection that is
\* active with the Stream of a later attach on which no heartbeat send has
\* failed
C30_HealthyNeverEvicted ==
    [][\A s \in Streams :
          (sup[s].pc = "fail_chk" /\ sup'[s].pc = "evict") =>
              LET c == un'[s].conn
              IN ~(/\ conns[c].IsActive
                   /\ conns[c].Stream \in Streams \ {s}
                   /\ sup[conns[c].Stream].fails = 0)]_vars

\* C31: the DetachStream at the end of a stream context writes only the
\* Connection this stream's AttachStream has written: a Connection registered
\* later under the same ids keeps its Stream and its IsActive
C31_LateDetachSparesNewConnection ==
    [][\A s \in Streams :
          (st[s].pc \in {"det_stream", "det_active"} /\ st'[s] # st[s] /\
           st[s].aconn # st[s].att) =>
              /\ conns'[st[s].aconn].Stream = conns[st[s].aconn].Stream
              /\ conns'[st[s].aconn].IsActive = conns[st[s].aconn].IsActive]_vars

\* C32: a tick of a supervisor whose Connection is not active, or has no
\* Stream when that is read, ends the supervisor and changes no Connection,
\* no map and no channel: nothing is sent, and HeartbeatFailCount and
\* LastHeartbeatAt stay as they were
C32_InactiveTickExits ==
    [][\A s \in Streams :
          (/\ sup'[s] # sup[s]
           /\ chanBuf' = chanBuf
           /\ \/ sup[s].pc = "wait" /\ ~conns[sup[s].conn].IsActive
              \/ sup[s].pc = "chk_stream" /\ conns[sup[s].conn].Stream = NoStream) =>
              /\ sup'[s].pc = "done"
              /\ sup'[s].exit = "inactive"
              /\ conns' = conns
              /\ clients' = clients /\ groups' = groups
              /\ removed' = removed /\ un' = un]_vars

\* a supervisor has exited on a tick that found its Connection inactive,
\* after a failed heartbeat: the Connection is still registered with the
\* count of that failure
C32_ExitedWithCountKept ==
    /\ sup["s1"].exit = "inactive"
    /\ \E i \in ConnIds :
          /\ GetConnection("a", "c") = i
          /\ ~conns[i].IsActive
          /\ conns[i].HeartbeatFailCount = 1

\* C33: a Connection removed by UnregisterDevice is in no map again, is
\* returned by no later RegisterDevice and is in no snapshot a dispatch call
\* takes later; and the Connection a RegisterDevice creates is a new object,
\* inactive, with no Stream, no stop channel and all counters 0, that no
\* stream context and no supervisor refers to
C33_GoneIsTerminal ==
    /\ [](\A i \in ConnIds :
             removed[i] =>
                 /\ \A c \in ClientIDs, d \in DeviceIDs : GetConnection(c, d) # i
                 /\ i \notin GetConnectionByUniqueID(conns[i].UniqueID)
                 /\ ~(lastRet.op = "RegisterDevice" /\ lastRet.conn = i))
    /\ [][/\ \A p \in DispProcs :
               (dp[p].pc = "snap" /\ dp'[p].pc = "loop") =>
                   \A i \in dp'[p].todo : ~removed[i]
          /\ nConns' # nConns =>
               LET n == nConns'
               IN /\ n = nConns + 1
                  /\ ~removed[n] /\ ~removed'[n]
                  /\ \E c \in ClientIDs, d \in DeviceIDs :
                        /\ c = conns'[n].ClientID /\ d = conns'[n].DeviceID
                        /\ clients'[c] # Nil
                        /\ groups'[clients'[c]].Devices[d] = n
                  /\ ~conns'[n].IsActive
                  /\ conns'[n].Stream = NoStream
                  /\ conns'[n].HeartbeatStopChan = NoChan
                  /\ conns'[n].NotificationCount = 0
                  /\ conns'[n].HeartbeatFailCount = 0
                  /\ conns'[n].LastNotificationAt = "zero"
                  /\ conns'[n].LastHeartbeatAt = "zero"
                  /\ \A s \in Streams :
                        /\ sup'[s].conn # n
                        /\ st'[s].conn # n /\ st'[s].aconn # n]_vars

\* a Connection that was attached and notified has been unregistered, and
\* the RegisterDevice after it has returned a new idle Connection
C33_FreshAfterGone ==
    \E i, j \in ConnIds :
        /\ removed[i]
        /\ conns[i].NotificationCount = 1
        /\ lastRet.op = "RegisterDevice" /\ lastRet.conn = j
        /\ j # i
        /\ GetConnection("a", "c") = j
        /\ conns[j].NotificationCount = 0
        /\ ~conns[j].IsActive /\ conns[j].Stream = NoStream

\* C34: a step of SendNotificationToClient or BroadcastToAll changes no map,
\* creates and removes no Connection and touches no stream context,
\* supervisor or channel; of a Connection it changes nothing but
\* NotificationCount and LastNotificationAt, and those only of the device
\* whose Send has just returned nil
C34_DispatchWritesOnlyCounters ==
    [][dp' # dp =>
          /\ clients' = clients /\ groups' = groups
          /\ nConns' = nConns /\ removed' = removed
          /\ st' = st /\ sup' = sup /\ chanBuf' = chanBuf
          /\ \A i \in ConnIds :
                /\ [conns'[i] EXCEPT !.NotificationCount = 0,
                                     !.LastNotificationAt = "zero",
                                     !.Delivered = 0] =
                      [conns[i] EXCEPT !.NotificationCount = 0,
                                    !.LastNotificationAt = "zero",
                                    !.Delivered = 0]
                /\ (\/ conns'[i].NotificationCount # conns[i].NotificationCount
                    \/ conns'[i].LastNotificationAt # conns[i].LastNotificationAt) =>
                       \E p \in DispProcs :
                           /\ dp[p].cur = i
                           /\ dp[p].pc \in {"upd_rd", "upd_wr"}
                           /\ dp[p].okSends = dp[p].successCount + 1]_vars

\* a broadcast has notified a device: its counter and timestamp are written
\* and it is registered, active and attached as before
C34_NotifiedAndStillAttached ==
    /\ lastRet.op = "BroadcastToAll"
    /\ lastRet.successCount = 1
    /\ \E i \in ConnIds :
          /\ GetConnection(conns[i].ClientID, conns[i].DeviceID) = i
          /\ conns[i].NotificationCount = 1
          /\ conns[i].LastNotificationAt = "set"
          /\ conns[i].IsActive /\ conns[i].Stream = "s1"

\* C35: a stream context whose transport ends can always take the step of
\* its stop signal, whatever the stop channel holds and whatever its
\* supervisor has done, and from there it goes through DetachStream and
\* returns
C35_TeardownFinishes ==
    /\ [](\A s \in Streams : st[s].pc = "serve" => ENABLED StreamSignalStop(s))
    /\ \A s \in Streams :
          (st[s].pc \in {"det_get", "det_stream", "det_active"}) ~> (st[s].pc = "done")

\* stream 2 has returned from its teardown although the stop channel it
\* signalled on was still full with the signal of stream 1, after the
\* supervisor of stream 1 had exited on its own
C35_ReturnedWithSignalPending ==
    /\ lastRet.op = "StreamNotifications" /\ lastRet.by = "s2" /\ lastRet.ret = "ok"
    /\ st["s2"].pc = "done" /\ st["s1"].pc = "done"
    /\ chanBuf["s2"] = "s1"
    /\ sup["s1"].exit \in {"inactive", "evicted"}

\* C36: in every report GetConnectionStats returns, client_ids has as many
\* entries as total_clients says
C36_ReportCountsAgree ==
    lastRet.op = "GetConnectionStats" =>
        Cardinality(lastRet.client_ids) = lastRet.stats.total_clients

====
